---- MODULE Spec2Model ----
(***************************************************************************)
(* Model of libweston/va_renderer.c: the VA-API HDR tone-mapping renderer. *)
(* The three public operations (va_renderer_initialize,                    *)
(* va_renderer_tonemap, va_renderer_fini) run on one session `r`; the      *)
(* accelerator (libva) and the allocator (gbm) are modelled by the objects *)
(* they keep alive and by the calls they receive (`log`).                  *)
(* The module is single-threaded and synchronous, so a public operation    *)
(* is a chain of steps driven by `pc`; between operations pc = "idle".     *)
(***************************************************************************)
EXTENDS Integers, Sequences, FiniteSets, TLC

(* ------------------------------ bounds --------------------------------- *)
\* number of va_renderer_tonemap calls made on one session
MaxCalls == 2

(* ------------------------- program constants --------------------------- *)
\* 0xffffffff as a 32-bit two's complement value (TLC integers are 32-bit signed)
VA_INVALID_ID == -1
VA_INVALID_SURFACE == VA_INVALID_ID
VA_RT_FORMAT_YUV420 == 1
VA_RT_FORMAT_YUV422 == 2
VA_RT_FORMAT_YUV444 == 4
\* fourcc_mod_code(NONE, 0x00ffffffffffffff), kept symbolic (it exceeds 32 bits)
DRM_FORMAT_MOD_INVALID == -1
DRM_FORMAT_MOD_LINEAR == 0
\* the build option guarding the dma-buf import code
HAVE_GBM_FD_IMPORT == TRUE

\* ASCII codes of the characters used by the four-character codes
Chr == [A |-> 65, I |-> 73, N |-> 78, P |-> 80, U |-> 85, V |-> 86, Y |-> 89,
        d0 |-> 48, d1 |-> 49, d2 |-> 50, d4 |-> 52, d6 |-> 54]

fourcc_code(a, b, c, d) == a + b * 256 + c * 65536 + d * 16777216
VA_FOURCC(a, b, c, d) == a + b * 256 + c * 65536 + d * 16777216

DRM_FORMAT_NV12 == fourcc_code(Chr.N, Chr.V, Chr.d1, Chr.d2)
DRM_FORMAT_YVU420 == fourcc_code(Chr.Y, Chr.V, Chr.d1, Chr.d2)
DRM_FORMAT_YUV420 == fourcc_code(Chr.Y, Chr.U, Chr.d1, Chr.d2)
DRM_FORMAT_UYVY == fourcc_code(Chr.U, Chr.Y, Chr.V, Chr.Y)
DRM_FORMAT_YUYV == fourcc_code(Chr.Y, Chr.U, Chr.Y, Chr.V)
DRM_FORMAT_YVYU == fourcc_code(Chr.Y, Chr.V, Chr.Y, Chr.U)
DRM_FORMAT_VYUY == fourcc_code(Chr.V, Chr.Y, Chr.U, Chr.Y)
DRM_FORMAT_YUV422 == fourcc_code(Chr.Y, Chr.U, Chr.d1, Chr.d6)
DRM_FORMAT_YUV444 == fourcc_code(Chr.Y, Chr.U, Chr.d2, Chr.d4)
DRM_FORMAT_AYUV == fourcc_code(Chr.A, Chr.Y, Chr.U, Chr.V)
DRM_FORMAT_P010 == fourcc_code(Chr.P, Chr.d0, Chr.d1, Chr.d0)

VA_FOURCC_NV12 == VA_FOURCC(Chr.N, Chr.V, Chr.d1, Chr.d2)
VA_FOURCC_YV12 == VA_FOURCC(Chr.Y, Chr.V, Chr.d1, Chr.d2)
VA_FOURCC_I420 == VA_FOURCC(Chr.I, Chr.d4, Chr.d2, Chr.d0)
VA_FOURCC_YUY2 == VA_FOURCC(Chr.Y, Chr.U, Chr.Y, Chr.d2)
VA_FOURCC_UYVY == VA_FOURCC(Chr.U, Chr.Y, Chr.V, Chr.Y)
VA_FOURCC_P010 == VA_FOURCC(Chr.P, Chr.d0, Chr.d1, Chr.d0)

(* --------------------------- Format Translator ------------------------- *)
va_drm_format_to_rt_format(format) ==
    CASE format \in {DRM_FORMAT_NV12, DRM_FORMAT_YVU420, DRM_FORMAT_YUV420,
                     DRM_FORMAT_UYVY, DRM_FORMAT_YUYV, DRM_FORMAT_YVYU,
                     DRM_FORMAT_VYUY} -> VA_RT_FORMAT_YUV420
      [] format = DRM_FORMAT_YUV422 -> VA_RT_FORMAT_YUV422
      [] format = DRM_FORMAT_YUV444 -> VA_RT_FORMAT_YUV444
      [] format = DRM_FORMAT_P010 -> VA_RT_FORMAT_YUV420
      [] OTHER -> 0

\* (the P010 case missing, so that P010 falls to the default)
va_drm_format_to_va_format_NoP010(format) ==
    CASE format = DRM_FORMAT_NV12 -> VA_FOURCC_NV12
      [] format = DRM_FORMAT_YVU420 -> VA_FOURCC_YV12
      [] format = DRM_FORMAT_YUV420 -> VA_FOURCC_I420
      [] format = DRM_FORMAT_YUV422 -> VA_FOURCC_YUY2
      [] format = DRM_FORMAT_UYVY -> VA_FOURCC_UYVY
      [] format = DRM_FORMAT_YUYV -> VA_FOURCC_YUY2
      [] OTHER -> 0

va_drm_format_to_va_format(format) ==
    CASE format = DRM_FORMAT_NV12 -> VA_FOURCC_NV12
      [] format = DRM_FORMAT_YVU420 -> VA_FOURCC_YV12
      [] format = DRM_FORMAT_YUV420 -> VA_FOURCC_I420
      [] format = DRM_FORMAT_YUV422 -> VA_FOURCC_YUY2
      [] format = DRM_FORMAT_UYVY -> VA_FOURCC_UYVY
      [] format = DRM_FORMAT_YUYV -> VA_FOURCC_YUY2
      [] format = DRM_FORMAT_P010 -> VA_FOURCC_P010
      [] OTHER -> 0

\* the two locals computed at the top of va_renderer_tonemap
rt_format == va_drm_format_to_rt_format(DRM_FORMAT_P010)
va_format == va_drm_format_to_va_format(DRM_FORMAT_P010)

(* ------------------------------- inputs -------------------------------- *)
\* width/height pairs of the buffers handed to the module
Dims == {<<64, 32>>, <<128, 96>>}
\* a non-zero plane offset
SomeOffset == 4096

\* a weston_view, reduced to what the module reads from it:
\*   hdr_metadata  surface->hdr_metadata != NULL
\*   buffer        "none" (no buffer attached), "dmabuf" (linux_dmabuf_buffer_get
\*                 finds a dma-buf) or "wl" (any other wl_buffer)
\*   flags, n_planes, modifier, offset, width, height: dmabuf->attributes
View(h, b, f, n, m, o, d) ==
    [hdr_metadata |-> h, buffer |-> b, flags |-> f, n_planes |-> n,
     modifier |-> m, offset |-> o, width |-> d[1], height |-> d[2]]

Views ==
    {View(h, "none", 0, 1, DRM_FORMAT_MOD_INVALID, 0, <<0, 0>>) : h \in BOOLEAN}
    \cup {View(h, "wl", 0, 1, DRM_FORMAT_MOD_INVALID, 0, d) :
              h \in BOOLEAN, d \in Dims}
    \cup {View(x[1], "dmabuf", x[2], x[3], x[4], x[5], x[6]) :
              x \in BOOLEAN \X {0, 1} \X {1, 2}
                    \X {DRM_FORMAT_MOD_INVALID, DRM_FORMAT_MOD_LINEAR}
                    \X {0, SomeOffset} \X Dims}

(* ------------------------------- state --------------------------------- *)
VARIABLES
    session,      \* "none": no struct va_renderer; "live": returned by
                  \* va_renderer_initialize; "finished": va_renderer_fini ran
    r,            \* struct va_renderer: va_context, va_config, render_target_format
    va_display,   \* "closed", "open" (vaInitialize succeeded) or "terminated"
    contexts,     \* ids of the contexts alive in the accelerator
    configs,      \* ids of the configs alive in the accelerator
    buffers,      \* ids of the parameter buffers alive in the accelerator
    nSurfaces,    \* surfaces created so far (ids 1..nSurfaces; none is destroyed)
    nBos,         \* gbm buffer objects imported and not released
    calls,        \* va_renderer_tonemap calls made so far
    pc,           \* position inside the running operation, "idle" between them
    op,           \* the operation that runs or ran last
    v,            \* the view of the running / last va_renderer_tonemap call
    pre,          \* r and the live objects at the entry of that call, and
                  \* whether the call before it failed its context transition
    loc,          \* the locals of va_renderer_tonemap
    pass,         \* what each begin/render/end sequence of the call submitted
    retval,       \* the value the last operation returned
    created,      \* some vaCreateConfig / vaCreateContext succeeded on the session
    log,          \* accelerator / allocator calls issued by the running / last operation
    fmt           \* a pixel format and what the two translators return for it

vars == <<session, r, va_display, contexts, configs, buffers, nSurfaces, nBos,
          calls, pc, op, v, pre, loc, pass, retval, created, log, fmt>>

\* everything but the format translator's argument and results
sessionVars == <<session, r, va_display, contexts, configs, buffers, nSurfaces,
                 nBos, calls, pc, op, v, pre, loc, pass, retval, created, log>>

accel == <<va_display, contexts, configs, buffers, nSurfaces, nBos>>

\* one entry of `log`: the function called, its handle arguments, and whether
\* the handles were live objects (for a create: whether an object was created)
Ev(f, a, b, live) == [f |-> f, a |-> a, b |-> b, live |-> live]
\* the entry of a vaCreateSurfaces call: the surface written to the output
\* parameter, the render-target format and the size asked for
EvSurface(id, rtf, w, h, live) ==
    [f |-> "vaCreateSurfaces", a |-> id, b |-> rtf, live |-> live, w |-> w, h |-> h]

\* the id the accelerator gives to a new object: the smallest one not in use
FreshId(S) == CHOOSE i \in 1..(Cardinality(S) + 1) : i \notin S

\* an automatic variable that has not been assigned yet
UNINIT == -2
\* a value that is no handle of any object
GarbageId == 77
\* values an unassigned automatic variable may be read as
UninitValues == {GarbageId, VA_INVALID_ID}
\* what an output parameter holds after a failed create call: the driver left
\* it alone (an unassigned variable then reads as anything) or invalidated it
FailOut(x) == (IF x = UNINIT THEN UninitValues ELSE {x}) \cup {VA_INVALID_ID}

NULL_BO == [id |-> 0, width |-> 0, height |-> 0, type |-> "none"]
NoParam == [surface |-> 0, region |-> <<0, 0, 0, 0>>, output_region |-> <<0, 0, 0, 0>>,
            num_filters |-> 0, filters |-> 0]
NoPass == [target |-> 0, buffer |-> 0, param |-> NoParam, done |-> FALSE,
           failed |-> FALSE]

Locals0 == [bo |-> NULL_BO, width |-> 0, height |-> 0,
            src_surface |-> UNINIT, dst_surface |-> UNINIT,
            hdr_filter_buffer |-> UNINIT, pipeline_buffer |-> UNINIT,
            pipe_param |-> NoParam, surface_region |-> <<0, 0, 0, 0>>,
            src_created |-> FALSE, ret |-> FALSE]

Zeroed == [va_context |-> 0, va_config |-> 0, render_target_format |-> 0]

\* no format translated yet
NoFormat == [format |-> 0, rt |-> 0, va |-> 0, done |-> FALSE]

\* before va_renderer_initialize: no session, nothing alive in the accelerator
InitSession ==
    /\ session = "none"
    /\ r = Zeroed
    /\ va_display = "closed"
    /\ contexts = {}
    /\ configs = {}
    /\ buffers = {}
    /\ nSurfaces = 0
    /\ nBos = 0
    /\ calls = 0
    /\ pc = "idle"
    /\ op = "none"
    /\ v \in {View(FALSE, "none", 0, 1, DRM_FORMAT_MOD_INVALID, 0, <<0, 0>>)}
    /\ pre = [r |-> Zeroed, contexts |-> {}, configs |-> {}, nSurfaces |-> 0,
              after_failed_transition |-> FALSE]
    /\ loc = Locals0
    /\ pass = <<NoPass, NoPass>>
    /\ retval = FALSE
    /\ created = FALSE
    /\ log = <<>>

Init ==
    /\ InitSession
    /\ fmt = NoFormat

(* ----------------------- va_renderer_initialize ------------------------ *)
va_renderer_initialize ==
    /\ pc = "idle"
    /\ session = "none"
    /\ \E outcome \in {"zalloc_failed", "no_display", "init_failed", "ok"} :
          /\ log' = CASE outcome = "zalloc_failed" -> <<>>
                      [] outcome = "no_display" ->
                             <<Ev("vaGetDisplayDRM", 0, 0, FALSE)>>
                      [] outcome = "init_failed" ->
                             <<Ev("vaGetDisplayDRM", 0, 0, TRUE),
                               Ev("vaInitialize", 0, 0, FALSE)>>
                      [] OTHER ->
                             <<Ev("vaGetDisplayDRM", 0, 0, TRUE),
                               Ev("vaInitialize", 0, 0, TRUE)>>
          /\ session' = IF outcome = "ok" THEN "live" ELSE "none"
          /\ va_display' = IF outcome = "ok" THEN "open" ELSE "closed"
          /\ retval' = (outcome = "ok")
    /\ r' = Zeroed
    /\ op' = "initialize"
    /\ created' = FALSE
    /\ UNCHANGED <<contexts, configs, buffers, nSurfaces, nBos, calls, pc, v,
                   pre, loc, pass>>
    /\ UNCHANGED fmt

(* --------------------- va_renderer_destroy_context --------------------- *)
\* the session fields, the live objects and the calls issued, as one record
StaleContext(rr) == rr.va_context # VA_INVALID_ID
StaleConfig(rr) == rr.va_config # VA_INVALID_ID

\* (the config destroyed before the context that was created from it)
va_renderer_destroy_context_ConfigFirst(rr, ctxs, cfgs) ==
    [r |-> [rr EXCEPT !.va_context = VA_INVALID_ID, !.va_config = VA_INVALID_ID],
     contexts |-> IF StaleContext(rr) THEN ctxs \ {rr.va_context} ELSE ctxs,
     configs |-> IF StaleConfig(rr) THEN cfgs \ {rr.va_config} ELSE cfgs,
     log |-> (IF StaleConfig(rr)
                THEN <<Ev("vaDestroyConfig", rr.va_config, 0,
                          rr.va_config \in cfgs)>>
                ELSE <<>>)
             \o (IF StaleContext(rr)
                   THEN <<Ev("vaDestroyContext", rr.va_context, 0,
                             rr.va_context \in ctxs)>>
                   ELSE <<>>)]

va_renderer_destroy_context(rr, ctxs, cfgs) ==
    [r |-> [rr EXCEPT !.va_context = VA_INVALID_ID, !.va_config = VA_INVALID_ID],
     contexts |-> IF StaleContext(rr) THEN ctxs \ {rr.va_context} ELSE ctxs,
     configs |-> IF StaleConfig(rr) THEN cfgs \ {rr.va_config} ELSE cfgs,
     log |-> (IF StaleContext(rr)
                THEN <<Ev("vaDestroyContext", rr.va_context, 0,
                          rr.va_context \in ctxs)>>
                ELSE <<>>)
             \o (IF StaleConfig(rr)
                   THEN <<Ev("vaDestroyConfig", rr.va_config, 0,
                             rr.va_config \in cfgs)>>
                   ELSE <<>>)]

(* --------------------------- va_renderer_fini -------------------------- *)
va_renderer_fini ==
    /\ pc = "idle"
    /\ session = "live"
    /\ LET d == va_renderer_destroy_context(r, contexts, configs) IN
          /\ r' = d.r
          /\ contexts' = d.contexts
          /\ configs' = d.configs
          /\ log' = d.log \o <<Ev("vaTerminate", 0, 0, va_display = "open")>>
    /\ va_display' = "terminated"
    /\ session' = "finished"
    /\ op' = "fini"
    /\ retval' = TRUE
    /\ UNCHANGED <<buffers, nSurfaces, nBos, calls, pc, v, pre, loc, pass, created>>
    /\ UNCHANGED fmt

(* -------------------------- va_renderer_tonemap ------------------------ *)
Return(b) ==
    /\ pc' = "idle"
    /\ retval' = b

\* the call itself: the caller passes a live session and a view
va_renderer_tonemap ==
    /\ pc = "idle"
    /\ session = "live"
    /\ calls < MaxCalls
    /\ \E view \in Views : v' = view
    /\ calls' = calls + 1
    /\ op' = "tonemap"
    /\ pre' = [r |-> r, contexts |-> contexts, configs |-> configs,
               nSurfaces |-> nSurfaces,
               after_failed_transition |->
                   /\ op = "tonemap"
                   /\ \E i \in DOMAIN log :
                         /\ log[i].f \in {"vaCreateConfig", "vaCreateContext"}
                         /\ ~log[i].live]
    /\ loc' = Locals0
    /\ pass' = <<NoPass, NoPass>>
    /\ log' = <<>>
    /\ retval' = FALSE
    /\ pc' = "check_metadata"
    /\ UNCHANGED <<session, r, accel, created>>
    /\ UNCHANGED fmt

\* if (!surface->hdr_metadata) return false;
\* (the metadata test left out)
HasMetadata_NoCheck(view) == TRUE
HasMetadata(view) == view.hdr_metadata

tm_check_metadata ==
    /\ pc = "check_metadata"
    /\ IF HasMetadata(v)
         THEN pc' = "check_context" /\ UNCHANGED retval
         ELSE Return(FALSE)
    /\ UNCHANGED <<session, r, accel, calls, op, v, pre, loc, pass, created, log>>
    /\ UNCHANGED fmt

\* if (r->va_context == VA_INVALID_ID || r->render_target_format != rt_format)
\* (the context recreated on every call)
NeedsContext_Always(rr) == TRUE
\* (only the format compared, the context handle not looked at)
NeedsContext_FormatOnly(rr) == rr.render_target_format # rt_format
NeedsContext(rr) ==
    rr.va_context = VA_INVALID_ID \/ rr.render_target_format # rt_format

tm_check_context ==
    /\ pc = "check_context"
    /\ IF NeedsContext(r)
         THEN /\ r' = [r EXCEPT !.render_target_format = rt_format]
              /\ pc' = "create_context"
         ELSE /\ pc' = "query_caps"
              /\ UNCHANGED r
    /\ UNCHANGED <<session, accel, calls, op, v, pre, loc, pass, retval, created,
                   log>>
    /\ UNCHANGED fmt

(* va_renderer_create_context, in three steps *)
cc_destroy_context ==
    /\ pc = "create_context"
    /\ LET d == va_renderer_destroy_context(r, contexts, configs) IN
          /\ r' = d.r
          /\ contexts' = d.contexts
          /\ configs' = d.configs
          /\ log' = log \o d.log
    /\ pc' = "vaCreateConfig"
    /\ UNCHANGED <<session, va_display, buffers, nSurfaces, nBos, calls, op, v,
                   pre, loc, pass, retval, created>>
    /\ UNCHANGED fmt

cc_create_config ==
    /\ pc = "vaCreateConfig"
    /\ \E ok \in BOOLEAN :
          IF ok
            THEN LET id == FreshId(configs) IN
                    /\ configs' = configs \cup {id}
                    /\ r' = [r EXCEPT !.va_config = id]
                    /\ log' = Append(log, Ev("vaCreateConfig", id,
                                             r.render_target_format, TRUE))
                    /\ pc' = "vaCreateContext"
                    /\ created' = TRUE
                    /\ UNCHANGED retval
            ELSE \E out \in FailOut(r.va_config) :
                    /\ r' = [r EXCEPT !.va_config = out]
                    /\ log' = Append(log, Ev("vaCreateConfig", out,
                                             r.render_target_format, FALSE))
                    /\ UNCHANGED <<configs, created>>
                    /\ Return(FALSE)
    /\ UNCHANGED <<session, va_display, contexts, buffers, nSurfaces, nBos,
                   calls, op, v, pre, loc, pass>>
    /\ UNCHANGED fmt

cc_create_context ==
    /\ pc = "vaCreateContext"
    /\ \E ok \in BOOLEAN :
          IF ok
            THEN LET id == FreshId(contexts) IN
                    /\ contexts' = contexts \cup {id}
                    /\ r' = [r EXCEPT !.va_context = id]
                    /\ log' = Append(log, Ev("vaCreateContext", id, r.va_config, TRUE))
                    /\ pc' = "query_caps"
                    /\ created' = TRUE
                    /\ UNCHANGED retval
            ELSE \E out \in FailOut(r.va_context) :
                    /\ r' = [r EXCEPT !.va_context = out]
                    /\ log' = Append(log, Ev("vaCreateContext", out, r.va_config, FALSE))
                    /\ UNCHANGED <<contexts, created>>
                    /\ Return(FALSE)
    /\ UNCHANGED <<session, va_display, configs, buffers, nSurfaces, nBos,
                   calls, op, v, pre, loc, pass>>
    /\ UNCHANGED fmt

\* vaQueryVideoProcFilterCaps: its status and its result are only logged
tm_query_caps ==
    /\ pc = "query_caps"
    /\ \E status \in BOOLEAN :
          log' = Append(log, Ev("vaQueryVideoProcFilterCaps", r.va_context, 0,
                                r.va_context \in contexts))
    /\ pc' = "get_bo"
    /\ UNCHANGED <<session, r, accel, calls, op, v, pre, loc, pass, retval, created>>
    /\ UNCHANGED fmt

(* va_get_bo_from_view *)
\* if (dmabuf->attributes.flags) return NULL;
\* (flagged buffers let through)
RejectsFlags_Never(view) == FALSE
RejectsFlags(view) == view.flags # 0

\* (the legacy path taken only for buffers that carry a modifier)
ImportType_Inverted(view) ==
    IF view.buffer = "dmabuf"
      THEN IF view.modifier # DRM_FORMAT_MOD_INVALID
             THEN "GBM_BO_IMPORT_FD"
             ELSE "GBM_BO_IMPORT_FD_MODIFIER"
      ELSE "GBM_BO_IMPORT_WL_BUFFER"

\* (the plane offset left out of the test)
ImportType_IgnoresOffset(view) ==
    IF view.buffer = "dmabuf"
      THEN IF \/ view.modifier # DRM_FORMAT_MOD_INVALID
              \/ view.n_planes > 1
             THEN "GBM_BO_IMPORT_FD_MODIFIER"
             ELSE "GBM_BO_IMPORT_FD"
      ELSE "GBM_BO_IMPORT_WL_BUFFER"

\* the gbm_bo_import type chosen for a buffer that reaches an import
ImportType(view) ==
    IF view.buffer = "dmabuf"
      THEN IF \/ view.modifier # DRM_FORMAT_MOD_INVALID
              \/ view.n_planes > 1
              \/ view.offset > 0
             THEN "GBM_BO_IMPORT_FD_MODIFIER"
             ELSE "GBM_BO_IMPORT_FD"
      ELSE "GBM_BO_IMPORT_WL_BUFFER"

\* (the flags of a dma-buf not looked at)
ReachesImport_IgnoresFlags(view) == view.buffer # "none"

\* whether va_get_bo_from_view reaches a gbm_bo_import call
ReachesImport(view) ==
    /\ view.buffer # "none"
    /\ view.buffer = "dmabuf" => (HAVE_GBM_FD_IMPORT /\ ~RejectsFlags(view))

tm_get_bo ==
    /\ pc = "get_bo"
    /\ IF ReachesImport(v)
         THEN \E ok \in BOOLEAN :
                 IF ok
                   THEN /\ nBos' = nBos + 1
                        /\ loc' = [loc EXCEPT
                              !.bo = [id |-> nBos + 1, width |-> v.width,
                                      height |-> v.height, type |-> ImportType(v)],
                              !.width = v.width,
                              !.height = v.height]
                        /\ log' = Append(log, Ev("gbm_bo_import", nBos + 1,
                                                 ImportType(v), TRUE))
                        /\ pc' = "get_surface"
                        /\ UNCHANGED retval
                   ELSE /\ log' = Append(log, Ev("gbm_bo_import", 0,
                                                 ImportType(v), FALSE))
                        /\ UNCHANGED <<nBos, loc>>
                        /\ Return(FALSE)
         ELSE /\ UNCHANGED <<nBos, loc, log>>
              /\ Return(FALSE)
    /\ UNCHANGED <<session, r, va_display, contexts, configs, buffers,
                   nSurfaces, calls, op, v, pre, pass, created>>
    /\ UNCHANGED fmt

(* va_get_surface_from_gbm_bo: the source surface wraps the imported buffer *)
tm_get_surface ==
    /\ pc = "get_surface"
    /\ \E ok \in BOOLEAN :
          IF ok
            THEN /\ nSurfaces' = nSurfaces + 1
                 /\ loc' = [loc EXCEPT !.src_surface = nSurfaces + 1,
                                       !.src_created = TRUE]
                 /\ log' = log \o
                       <<Ev("gbm_bo_get_fd", loc.bo.id, 0, TRUE),
                         EvSurface(nSurfaces + 1,
                                   va_drm_format_to_rt_format(DRM_FORMAT_P010),
                                   loc.bo.width, loc.bo.height, TRUE)>>
            ELSE \E out \in FailOut(UNINIT) :
                 /\ UNCHANGED nSurfaces
                 /\ loc' = [loc EXCEPT !.src_surface = out]
                 /\ log' = log \o
                       <<Ev("gbm_bo_get_fd", loc.bo.id, 0, TRUE),
                         EvSurface(out,
                                   va_drm_format_to_rt_format(DRM_FORMAT_P010),
                                   loc.bo.width, loc.bo.height, FALSE)>>
    /\ pc' = "create_dst"
    /\ UNCHANGED <<session, r, va_display, contexts, configs, buffers, nBos,
                   calls, op, v, pre, pass, retval, created>>
    /\ UNCHANGED fmt

\* the intermediate surface of the first pass
tm_create_dst ==
    /\ pc = "create_dst"
    /\ \E ok \in BOOLEAN :
          IF ok
            THEN /\ nSurfaces' = nSurfaces + 1
                 /\ loc' = [loc EXCEPT
                       !.dst_surface = nSurfaces + 1,
                       !.surface_region = <<0, 0, loc.width, loc.height>>]
                 /\ log' = Append(log, EvSurface(nSurfaces + 1, rt_format,
                                                 loc.width, loc.height, TRUE))
                 /\ pc' = "filter_buffer"
                 /\ UNCHANGED retval
            ELSE \E out \in FailOut(loc.dst_surface) :
                 /\ UNCHANGED nSurfaces
                 /\ loc' = [loc EXCEPT !.dst_surface = out]
                 /\ log' = Append(log, EvSurface(out, rt_format,
                                                 loc.width, loc.height, FALSE))
                 /\ Return(FALSE)
    /\ UNCHANGED <<session, r, va_display, contexts, configs, buffers, nBos,
                   calls, op, v, pre, pass, created>>
    /\ UNCHANGED fmt

\* vaCreateBuffer: the new buffer id lands in the local `field` of loc
CreateBuffer(kind, field, next, others) ==
    /\ \E ok \in BOOLEAN :
          IF ok /\ r.va_context \in contexts
            THEN LET id == FreshId(buffers) IN
                    /\ buffers' = buffers \cup {id}
                    /\ loc' = [others EXCEPT ![field] = id]
                    /\ log' = Append(log, Ev("vaCreateBuffer", id, kind, TRUE))
            ELSE \E out \in FailOut(loc[field]) :
                    /\ UNCHANGED buffers
                    /\ loc' = [others EXCEPT ![field] = out]
                    /\ log' = Append(log, Ev("vaCreateBuffer", out, kind, FALSE))
    /\ pc' = next

tm_filter_buffer ==
    /\ pc = "filter_buffer"
    /\ CreateBuffer("VAProcFilterParameterBufferType", "hdr_filter_buffer",
                    "pipeline_buffer1", loc)
    /\ UNCHANGED <<session, r, va_display, contexts, configs, nSurfaces, nBos,
                   calls, op, v, pre, pass, retval, created>>
    /\ UNCHANGED fmt

\* the pipeline parameters of the first pass
PipeParam1(l) ==
    [surface |-> l.src_surface, region |-> l.surface_region,
     output_region |-> l.surface_region, num_filters |-> 1,
     filters |-> l.hdr_filter_buffer]

tm_pipeline_buffer1 ==
    /\ pc = "pipeline_buffer1"
    /\ CreateBuffer("VAProcPipelineParameterBufferType", "pipeline_buffer",
                    "pass1", [loc EXCEPT !.pipe_param = PipeParam1(loc)])
    /\ UNCHANGED <<session, r, va_display, contexts, configs, nSurfaces, nBos,
                   calls, op, v, pre, pass, retval, created>>
    /\ UNCHANGED fmt

\* vaBeginPicture / vaRenderPicture / vaEndPicture on `target`; ret is the
\* bitwise OR of the three statuses (TRUE: some call did not succeed)
Picture(n, target, next) ==
    /\ \E s1 \in BOOLEAN, s2 \in BOOLEAN, s3 \in BOOLEAN :
          /\ loc' = [loc EXCEPT !.ret = s1 \/ s2 \/ s3]
          /\ pass' = [pass EXCEPT ![n] = [target |-> target,
                                          buffer |-> loc.pipeline_buffer,
                                          param |-> loc.pipe_param,
                                          done |-> TRUE,
                                          failed |-> s1 \/ s2 \/ s3]]
    /\ log' = log \o
          <<Ev("vaBeginPicture", target, n,
               r.va_context \in contexts /\ target \in 1..nSurfaces),
            Ev("vaRenderPicture", loc.pipeline_buffer, n,
               r.va_context \in contexts /\ loc.pipeline_buffer \in buffers),
            Ev("vaEndPicture", r.va_context, n, r.va_context \in contexts)>>
    /\ pc' = next

Pass1Target(l) == l.dst_surface

tm_pass1 ==
    /\ pc = "pass1"
    /\ Picture(1, Pass1Target(loc), "destroy_buffers1")
    /\ UNCHANGED <<session, r, accel, calls, op, v, pre, retval, created>>
    /\ UNCHANGED fmt

\* (the filter buffer not destroyed after the first pass)
DestroyedAfterPass1_PipelineOnly(l) == <<l.pipeline_buffer>>
\* the buffers handed to vaDestroyBuffer after the first pass, in order
DestroyedAfterPass1(l) == <<l.pipeline_buffer, l.hdr_filter_buffer>>

tm_destroy_buffers1 ==
    /\ pc = "destroy_buffers1"
    /\ LET d == DestroyedAfterPass1(loc) IN
          /\ buffers' = buffers \ {d[i] : i \in DOMAIN d}
          /\ log' = log \o
                [i \in DOMAIN d |->
                    Ev("vaDestroyBuffer", d[i], 0,
                       d[i] \in buffers \ {d[j] : j \in 1..(i - 1)})]
    /\ pc' = "pipeline_buffer2"
    /\ UNCHANGED <<session, r, va_display, contexts, configs, nSurfaces, nBos,
                   calls, op, v, pre, loc, pass, retval, created>>
    /\ UNCHANGED fmt

\* the pipeline parameters of the second pass, set after the memset
PipeParam2(l) ==
    [NoParam EXCEPT !.surface = l.dst_surface, !.region = l.surface_region,
                    !.output_region = l.surface_region]

tm_pipeline_buffer2 ==
    /\ pc = "pipeline_buffer2"
    /\ CreateBuffer("VAProcPipelineParameterBufferType", "pipeline_buffer",
                    "pass2", [loc EXCEPT !.pipe_param = PipeParam2(loc)])
    /\ UNCHANGED <<session, r, va_display, contexts, configs, nSurfaces, nBos,
                   calls, op, v, pre, pass, retval, created>>
    /\ UNCHANGED fmt

Pass2Target(l) == l.src_surface

tm_pass2 ==
    /\ pc = "pass2"
    /\ Picture(2, Pass2Target(loc), "destroy_buffer2")
    /\ UNCHANGED <<session, r, accel, calls, op, v, pre, retval, created>>
    /\ UNCHANGED fmt

\* (the accumulated status of the last pass returned)
TonemapResult_Status(l) == ~l.ret
\* return true; the accumulated status `ret` is not looked at
TonemapResult(l) == TRUE

tm_destroy_buffer2 ==
    /\ pc = "destroy_buffer2"
    /\ buffers' = buffers \ {loc.pipeline_buffer}
    /\ log' = Append(log, Ev("vaDestroyBuffer", loc.pipeline_buffer, 0,
                             loc.pipeline_buffer \in buffers))
    /\ Return(TonemapResult(loc))
    /\ UNCHANGED <<session, r, va_display, contexts, configs, nSurfaces, nBos,
                   calls, op, v, pre, loc, pass, created>>
    /\ UNCHANGED fmt

(* ---------------------------- specification ---------------------------- *)
Next ==
    \/ va_renderer_initialize
    \/ va_renderer_fini
    \/ va_renderer_tonemap
    \/ tm_check_metadata
    \/ tm_check_context
    \/ cc_destroy_context
    \/ cc_create_config
    \/ cc_create_context
    \/ tm_query_caps
    \/ tm_get_bo
    \/ tm_get_surface
    \/ tm_create_dst
    \/ tm_filter_buffer
    \/ tm_pipeline_buffer1
    \/ tm_pass1
    \/ tm_destroy_buffers1
    \/ tm_pipeline_buffer2
    \/ tm_pass2
    \/ tm_destroy_buffer2

Spec == Init /\ [][Next]_vars

(* ---------------- the format translators on their own ------------------ *)
\* the characters the candidate format codes are spelled with
FormatChars == {Chr.Y, Chr.U, Chr.V, Chr.d1, Chr.d2}
\* the formats the translators are applied to: every format the source names,
\* 0, and every four-character code over FormatChars
Formats ==
    {DRM_FORMAT_NV12, DRM_FORMAT_YVU420, DRM_FORMAT_YUV420, DRM_FORMAT_UYVY,
     DRM_FORMAT_YUYV, DRM_FORMAT_YVYU, DRM_FORMAT_VYUY, DRM_FORMAT_YUV422,
     DRM_FORMAT_YUV444, DRM_FORMAT_AYUV, DRM_FORMAT_P010, 0}
    \cup {fourcc_code(x[1], x[2], x[3], x[4]) :
              x \in FormatChars \X FormatChars \X FormatChars \X FormatChars}

InitFormat ==
    /\ InitSession
    /\ \E f \in Formats : fmt = [NoFormat EXCEPT !.format = f]

\* both translators applied to the format
translate_format ==
    /\ ~fmt.done
    /\ fmt' = [fmt EXCEPT !.rt = va_drm_format_to_rt_format(fmt.format),
                          !.va = va_drm_format_to_va_format(fmt.format),
                          !.done = TRUE]
    /\ UNCHANGED sessionVars

NextFormat == translate_format

SpecFormat == InitFormat /\ [][NextFormat]_vars

(* ------------------------------ properties ----------------------------- *)
\* a va_renderer_tonemap call has returned and no other operation ran since
Returned == pc = "idle" /\ op = "tonemap"

\* the entries of `log` that are calls of f
Calls(f) == {i \in DOMAIN log : log[i].f = f}
Count(f) == Cardinality(Calls(f))
Issued(f) == Calls(f) # {}

VaCalls == {"vaDestroyContext", "vaDestroyConfig", "vaCreateConfig",
            "vaCreateContext", "vaQueryVideoProcFilterCaps", "vaCreateSurfaces",
            "vaCreateBuffer", "vaBeginPicture", "vaRenderPicture",
            "vaEndPicture", "vaDestroyBuffer", "vaTerminate"}

\* C1: a tonemap call on a view without HDR metadata returns failure, issues
\* no accelerator call and no gbm_bo_import, and leaves the session fields
\* (context, config, render_target_format) and the live objects as they were.
C1_NoMetadataFails ==
    (Returned /\ ~v.hdr_metadata) =>
        /\ retval = FALSE
        /\ \A f \in VaCalls \cup {"gbm_bo_import"} : ~Issued(f)
        /\ r = pre.r
        /\ contexts = pre.contexts
        /\ configs = pre.configs

\* a view without metadata was refused on a session that holds a live context
C1_Witness ==
    /\ Returned
    /\ ~v.hdr_metadata
    /\ v.buffer = "dmabuf"
    /\ retval = FALSE
    /\ pre.r.va_context \in pre.contexts

\* C2: a tonemap call on a view with HDR metadata whose dma-buf has non-zero
\* attribute flags returns failure, and the call creates no accelerator
\* surface and imports no buffer, whatever the accelerator calls return.
C2_FlagsRejected ==
    (Returned /\ v.hdr_metadata /\ v.buffer = "dmabuf" /\ v.flags # 0) =>
        /\ retval = FALSE
        /\ ~Issued("vaCreateSurfaces")
        /\ ~Issued("gbm_bo_import")

\* a flagged dma-buf was refused by the importer (the call got past the context)
C2_Witness ==
    /\ Returned
    /\ v.hdr_metadata
    /\ v.buffer = "dmabuf"
    /\ v.flags # 0
    /\ Issued("vaQueryVideoProcFilterCaps")
    /\ retval = FALSE

\* the calls of one tonemap call that manage the context and the config
ContextCalls == {"vaDestroyContext", "vaDestroyConfig", "vaCreateConfig",
                 "vaCreateContext"}
\* at entry the session held a live context of the requested format
ReadyAtEntry ==
    /\ pre.r.va_context \in pre.contexts
    /\ pre.r.render_target_format = rt_format
\* at entry the session's format differed from the requested one
FormatDiffersAtEntry == pre.r.render_target_format # rt_format
\* the objects alive at entry were destroyed by the call, each handle at most once
DestroyedExisting ==
    /\ \A c \in pre.contexts :
          \E i \in Calls("vaDestroyContext") : log[i].a = c /\ log[i].live
    /\ \A c \in pre.configs :
          \E i \in Calls("vaDestroyConfig") : log[i].a = c /\ log[i].live
    /\ Count("vaDestroyContext") <= 1
    /\ Count("vaDestroyConfig") <= 1
ConfigCreated == \E i \in Calls("vaCreateConfig") : log[i].live

\* C3 as stated: a call on a Ready session of the same format issues no
\* context/config call; a call whose format differs from the session's
\* destroys the existing context and config and creates a config and a
\* context exactly once each.
C3_RecreateExactlyOnce ==
    (Returned /\ v.hdr_metadata) =>
        /\ ReadyAtEntry => \A f \in ContextCalls : ~Issued(f)
        /\ FormatDiffersAtEntry =>
              /\ DestroyedExisting
              /\ Count("vaCreateConfig") = 1
              /\ Count("vaCreateContext") = 1

\* C3 (amended): a call on a Ready session of the same format issues no
\* context/config call; a call whose format differs from the session's
\* destroys the existing context and config, creates a config exactly once
\* and creates a context exactly once if that config was created, and not at
\* all if vaCreateConfig failed.
C3_ContextReuse ==
    (Returned /\ v.hdr_metadata) =>
        /\ ReadyAtEntry => \A f \in ContextCalls : ~Issued(f)
        /\ FormatDiffersAtEntry =>
              /\ DestroyedExisting
              /\ Count("vaCreateConfig") = 1
              /\ Count("vaCreateContext") = IF ConfigCreated THEN 1 ELSE 0

\* a call whose format differed from the session's created a config and a
\* context and went on to succeed
C3_Witness ==
    /\ Returned
    /\ v.hdr_metadata
    /\ FormatDiffersAtEntry
    /\ ConfigCreated
    /\ Count("vaCreateContext") = 1
    /\ r.va_context \in contexts
    /\ retval = TRUE

\* a va_renderer_fini call has returned
Finished == pc = "idle" /\ op = "fini"

\* C4: va_renderer_fini on a session on which no config and no context was
\* ever created issues no vaDestroyContext and no vaDestroyConfig, and calls
\* vaTerminate exactly once.
C4_FiniOnUninitialized ==
    (Finished /\ ~created) =>
        /\ ~Issued("vaDestroyContext")
        /\ ~Issued("vaDestroyConfig")
        /\ Count("vaTerminate") = 1

\* C5: between public operations the context handle and the config handle
\* are both live objects or both VA_INVALID_ID.
C5_BothOrNeither ==
    (pc = "idle" /\ session \in {"live", "finished"}) =>
        \/ r.va_context \in contexts /\ r.va_config \in configs
        \/ r.va_context = VA_INVALID_ID /\ r.va_config = VA_INVALID_ID

\* a vaCreateConfig or vaCreateContext call of the last tonemap call failed
TransitionFailed ==
    \E i \in Calls("vaCreateConfig") \cup Calls("vaCreateContext") : ~log[i].live

\* C6: when vaCreateConfig or vaCreateContext fails inside a tonemap call,
\* the call returns failure and the session is Uninitialized: no config and
\* no context is alive and both handles are VA_INVALID_ID.
C6_FailedTransitionUninitialized ==
    (Returned /\ TransitionFailed) =>
        /\ retval = FALSE
        /\ contexts = {}
        /\ configs = {}
        /\ r.va_context = VA_INVALID_ID
        /\ r.va_config = VA_INVALID_ID

\* C7: between calls no imported gbm buffer object is alive.
C7_NoBoRetained == (pc = "idle") => nBos = 0

\* the buffer created in the last tonemap call as its filter parameter buffer
IsFilterBuffer(b) ==
    \E i \in Calls("vaCreateBuffer") :
        /\ log[i].live
        /\ log[i].a = b
        /\ log[i].b = "VAProcFilterParameterBufferType"
\* the surface the bridge created from the imported buffer in this call
IsSourceSurface(x) == loc.src_created /\ x = loc.src_surface
\* the surface tm_create_dst allocated in this call
IsDestinationSurface(x) ==
    /\ x = loc.dst_surface
    /\ \E i \in Calls("vaCreateSurfaces") :
          log[i].live /\ log[i].a = x /\ x # loc.src_surface
\* position in `log` of pass n's vaBeginPicture / vaEndPicture
BeginOf(n) == CHOOSE i \in Calls("vaBeginPicture") : log[i].b = n
EndOf(n) == CHOOSE i \in Calls("vaEndPicture") : log[i].b = n

\* C8: in a tonemap call that reaches the render passes, pass 1 targets the
\* destination surface created in the call, reads the source surface and
\* carries one filter, the tone-mapping filter buffer; pass 2 targets the
\* source surface, reads the destination surface and carries no filter;
\* pass 1 ends before pass 2 begins.
C8_TwoPasses ==
    (Returned /\ pass[1].done) =>
        /\ IsDestinationSurface(pass[1].target)
        /\ IsSourceSurface(pass[1].param.surface)
        /\ pass[1].param.num_filters = 1
        /\ IsFilterBuffer(pass[1].param.filters)
        /\ pass[2].done
        /\ IsSourceSurface(pass[2].target)
        /\ IsDestinationSurface(pass[2].param.surface)
        /\ pass[2].param.num_filters = 0
        /\ Count("vaBeginPicture") = 2
        /\ Count("vaEndPicture") = 2
        /\ EndOf(1) < BeginOf(2)

\* every allocator and accelerator call of the last call succeeded
AllSucceeded ==
    /\ \A i \in DOMAIN log : log[i].live
    /\ ~pass[1].failed
    /\ ~pass[2].failed
\* a one-plane dma-buf without modifier, offset or flags
PlainDmabuf(view) ==
    /\ view.buffer = "dmabuf"
    /\ view.n_planes = 1
    /\ view.modifier = DRM_FORMAT_MOD_INVALID
    /\ view.offset = 0
    /\ view.flags = 0
FullExtent == <<0, 0, v.width, v.height>>

\* C9: for a view with HDR metadata on a plain one-plane dma-buf, when every
\* allocator and accelerator call succeeds, tonemap returns success, the
\* buffer is imported by GBM_BO_IMPORT_FD, and both surfaces and the input
\* and output regions of both passes have the buffer's width and height.
C9_PlainDmabufSucceeds ==
    (Returned /\ v.hdr_metadata /\ PlainDmabuf(v) /\ AllSucceeded) =>
        /\ retval = TRUE
        /\ Count("gbm_bo_import") = 1
        /\ \A i \in Calls("gbm_bo_import") : log[i].b = "GBM_BO_IMPORT_FD"
        /\ loc.bo.width = v.width /\ loc.bo.height = v.height
        /\ Count("vaCreateSurfaces") = 2
        /\ \A i \in Calls("vaCreateSurfaces") :
              log[i].w = v.width /\ log[i].h = v.height
        /\ \A n \in {1, 2} :
              /\ pass[n].done
              /\ pass[n].param.region = FullExtent
              /\ pass[n].param.output_region = FullExtent

\* a plain dma-buf of the larger size went through both passes
C9_Witness ==
    /\ Returned
    /\ v.hdr_metadata
    /\ PlainDmabuf(v)
    /\ AllSucceeded
    /\ v.width = 128
    /\ retval = TRUE
    /\ pass[2].done

\* the bridge's vaCreateSurfaces call of the last tonemap call failed
BridgeFailed == Issued("gbm_bo_get_fd") /\ ~loc.src_created

\* C10: when the bridge's vaCreateSurfaces fails, the bridge returns
\* VA_INVALID_SURFACE and tonemap returns failure without allocating a
\* destination surface and without any begin/render/end-picture call.
C10_BridgeFailureAborts ==
    (Returned /\ BridgeFailed) =>
        /\ loc.src_surface = VA_INVALID_SURFACE
        /\ retval = FALSE
        /\ Count("vaCreateSurfaces") = 1
        /\ ~Issued("vaBeginPicture")
        /\ ~Issued("vaRenderPicture")
        /\ ~Issued("vaEndPicture")

\* the view of the last call is a dma-buf with non-zero attribute flags
FlaggedDmabuf == v.buffer = "dmabuf" /\ v.flags # 0
NoAcceleratorCall == \A i \in DOMAIN log : log[i].f \notin VaCalls

\* C11 as stated: a tonemap call on a view without HDR metadata, or on a
\* dma-buf view with non-zero flags, returns failure before any accelerator
\* call is issued.
C11_DetectedBeforeAccelerator ==
    (Returned /\ (~v.hdr_metadata \/ FlaggedDmabuf)) =>
        /\ retval = FALSE
        /\ NoAcceleratorCall

\* C11 (amended): a call on a view without HDR metadata fails before any
\* accelerator call; a call on a view with metadata and a flagged dma-buf
\* fails before any surface, buffer or picture call and before any import,
\* but after the context step: the only calls it issues are those of the
\* context transition (if one was needed) and, when a context is ready,
\* one vaQueryVideoProcFilterCaps.
C11_UnsupportedInputFails ==
    (Returned /\ (~v.hdr_metadata \/ FlaggedDmabuf)) =>
        /\ retval = FALSE
        /\ ~v.hdr_metadata => NoAcceleratorCall
        /\ v.hdr_metadata =>
              /\ \A i \in DOMAIN log :
                    log[i].f \in ContextCalls \cup {"vaQueryVideoProcFilterCaps"}
              /\ Count("vaQueryVideoProcFilterCaps")
                    = IF r.va_context \in contexts THEN 1 ELSE 0
              /\ ~ReadyAtEntry => Issued("vaCreateConfig")

\* a flagged dma-buf was refused on a Ready session, after the caps query
C11_Witness ==
    /\ Returned
    /\ v.hdr_metadata
    /\ FlaggedDmabuf
    /\ ReadyAtEntry
    /\ Count("vaQueryVideoProcFilterCaps") = 1
    /\ retval = FALSE

\* the formats C12 calls supported
SupportedFormats ==
    {DRM_FORMAT_NV12, DRM_FORMAT_YVU420, DRM_FORMAT_YUV420, DRM_FORMAT_UYVY,
     DRM_FORMAT_YUYV, DRM_FORMAT_YVYU, DRM_FORMAT_VYUY, DRM_FORMAT_YUV422,
     DRM_FORMAT_YUV444, DRM_FORMAT_P010}
\* the render-target family C12 gives for a supported format
ExpectedRt(f) ==
    IF f = DRM_FORMAT_YUV422 THEN VA_RT_FORMAT_YUV422
    ELSE IF f = DRM_FORMAT_YUV444 THEN VA_RT_FORMAT_YUV444
    ELSE VA_RT_FORMAT_YUV420
\* the formats the four-character-code translator has no code for
NoFourcc == {DRM_FORMAT_YVYU, DRM_FORMAT_VYUY, DRM_FORMAT_YUV444}

\* C12 as stated: for every supported format both translators return a
\* non-zero value (the render-target family as listed); for every other
\* format both return 0.
C12_BothTranslateSupported ==
    fmt.done =>
        IF fmt.format \in SupportedFormats
          THEN fmt.rt = ExpectedRt(fmt.format) /\ fmt.rt # 0 /\ fmt.va # 0
          ELSE fmt.rt = 0 /\ fmt.va = 0

\* C12 (amended): va_drm_format_to_rt_format returns the listed family for
\* every supported format and 0 for every other format;
\* va_drm_format_to_va_format returns a fixed non-zero code for NV12, YVU420,
\* YUV420, YUV422, UYVY, YUYV and P010 (YUY2 for both YUV422 and YUYV), and 0
\* for YVYU, VYUY and YUV444 as for every format outside the supported set.
C12_FormatTables ==
    fmt.done =>
        /\ fmt.rt = IF fmt.format \in SupportedFormats
                      THEN ExpectedRt(fmt.format) ELSE 0
        /\ fmt.va =
              IF fmt.format \in SupportedFormats \ NoFourcc
                THEN CASE fmt.format = DRM_FORMAT_NV12 -> VA_FOURCC_NV12
                       [] fmt.format = DRM_FORMAT_YVU420 -> VA_FOURCC_YV12
                       [] fmt.format = DRM_FORMAT_YUV420 -> VA_FOURCC_I420
                       [] fmt.format = DRM_FORMAT_UYVY -> VA_FOURCC_UYVY
                       [] fmt.format = DRM_FORMAT_P010 -> VA_FOURCC_P010
                       [] OTHER -> VA_FOURCC_YUY2
                ELSE 0
        /\ fmt.format \in SupportedFormats \ NoFourcc => fmt.va # 0

\* the format the pipeline itself uses was translated by both functions
C12_Witness ==
    /\ fmt.done
    /\ fmt.format = DRM_FORMAT_P010
    /\ fmt.rt = VA_RT_FORMAT_YUV420
    /\ fmt.va = VA_FOURCC_P010

FilterType == "VAProcFilterParameterBufferType"
PipelineType == "VAProcPipelineParameterBufferType"
\* the vaCreateBuffer calls of the last call that created a buffer
BufferCreates == {i \in Calls("vaCreateBuffer") : log[i].live}
\* the vaDestroyBuffer calls that destroyed the buffer created at log[i]
DestroysOf(i) ==
    {j \in Calls("vaDestroyBuffer") :
        /\ j > i
        /\ log[j].a = log[i].a
        /\ log[j].live
        /\ ~\E k \in BufferCreates : i < k /\ k < j /\ log[k].a = log[i].a}
\* log[j] names a buffer that was created in this call and is gone by then
StaleUse(j) ==
    /\ ~log[j].live
    /\ \E i \in BufferCreates : i < j /\ log[i].a = log[j].a
\* the n-th vaCreateBuffer call for a pipeline parameter buffer
PipelineCreate(n) ==
    LET S == {i \in Calls("vaCreateBuffer") : log[i].b = PipelineType} IN
    CHOOSE i \in S : Cardinality({k \in S : k <= i}) = n

\* C13: when a tonemap call returns, every parameter buffer it created has
\* been destroyed exactly once, none was handed to vaRenderPicture (or to
\* vaDestroyBuffer again) after its destruction, and each pipeline buffer
\* was destroyed after the end-picture of its pass and before the next
\* pipeline buffer was created.
C13_BuffersScoped ==
    Returned =>
        /\ buffers = {}
        /\ \A i \in BufferCreates : Cardinality(DestroysOf(i)) = 1
        /\ \A j \in Calls("vaDestroyBuffer") \cup Calls("vaRenderPicture") :
              ~StaleUse(j)
        /\ \A n \in {1, 2} :
              (pass[n].done /\ log[PipelineCreate(n)].live) =>
                 \E j \in DestroysOf(PipelineCreate(n)) :
                    /\ j > EndOf(n)
                    /\ n = 1 => j < PipelineCreate(2)

\* the vaCreateBuffer call for the filter parameter buffer
FilterCreate == CHOOSE i \in Calls("vaCreateBuffer") : log[i].b = FilterType
FilterCreated ==
    \E i \in Calls("vaCreateBuffer") : log[i].b = FilterType /\ log[i].live
\* position in `log` of the call that destroyed the filter buffer
FilterDestroy == CHOOSE j \in DestroysOf(FilterCreate) : TRUE

\* C14 as stated: the filter buffer is destroyed after the end-picture of
\* pass 2.
C14_FilterOutlivesBothPasses ==
    (Returned /\ pass[1].done /\ FilterCreated) =>
        /\ DestroysOf(FilterCreate) # {}
        /\ FilterDestroy > EndOf(2)

\* C14 (amended): the filter buffer is destroyed after the end-picture of
\* pass 1, the only pass that carries it, and before pass 2 begins (before
\* the second pipeline buffer is even created).
C14_FilterDestroyedAfterPass1 ==
    (Returned /\ pass[1].done /\ FilterCreated) =>
        /\ DestroysOf(FilterCreate) # {}
        /\ FilterDestroy > EndOf(1)
        /\ FilterDestroy < PipelineCreate(2)
        /\ FilterDestroy < BeginOf(2)

\* a call created a filter buffer, ran both passes and returned
C14_Witness ==
    /\ Returned
    /\ pass[2].done
    /\ FilterCreated
    /\ log[PipelineCreate(2)].live
    /\ retval = TRUE

\* the destination surface of the last call was created
DstCreated ==
    \E i \in Calls("vaCreateSurfaces") : log[i].live /\ log[i].a = loc.dst_surface
\* some vaCreateBuffer of the last call failed
SomeBufferFailed == \E i \in Calls("vaCreateBuffer") : ~log[i].live

\* C15: once the destination surface exists, tonemap returns success
\* whatever vaCreateBuffer, vaBeginPicture, vaRenderPicture and vaEndPicture
\* return in either pass, and pass 2 is issued also when pass 1 failed.
C15_StatusIgnored ==
    (Returned /\ DstCreated) =>
        /\ retval = TRUE
        /\ pass[1].done
        /\ pass[2].done
        /\ Count("vaBeginPicture") = 2
        /\ Count("vaRenderPicture") = 2
        /\ Count("vaEndPicture") = 2

\* both passes and a vaCreateBuffer failed and the call still returned success
C15_Witness ==
    /\ Returned
    /\ DstCreated
    /\ pass[1].failed
    /\ pass[2].failed
    /\ SomeBufferFailed
    /\ retval = TRUE

\* the last call failed at the creation of the destination surface, after
\* the bridge had created the source surface
FailedAtDst ==
    /\ retval = FALSE
    /\ loc.src_created
    /\ Count("vaCreateSurfaces") = 2
    /\ ~DstCreated

\* C16: no operation destroys an accelerator surface, so the live surfaces
\* are the surfaces created; a tonemap call that returns success adds
\* exactly two, one that fails at the destination surface after the source
\* surface was created adds one.
C16_SurfacesNeverDestroyed ==
    /\ ~Issued("vaDestroySurfaces")
    /\ Returned =>
          /\ nSurfaces - pre.nSurfaces
                = Cardinality({i \in Calls("vaCreateSurfaces") : log[i].live})
          /\ retval = TRUE => nSurfaces = pre.nSurfaces + 2
          /\ FailedAtDst => nSurfaces = pre.nSurfaces + 1

\* C17: in va_renderer_fini every vaDestroyContext precedes every
\* vaDestroyConfig, both precede vaTerminate, vaTerminate is called exactly
\* once and last, and afterwards both handles are VA_INVALID_ID.
C17_FiniOrder ==
    Finished =>
        /\ \A i \in Calls("vaDestroyContext"), j \in Calls("vaDestroyConfig") : i < j
        /\ \A i \in Calls("vaDestroyContext") \cup Calls("vaDestroyConfig"),
              j \in Calls("vaTerminate") : i < j
        /\ Count("vaTerminate") = 1
        /\ Count("vaDestroyContext") <= 1
        /\ Count("vaDestroyConfig") <= 1
        /\ r.va_context = VA_INVALID_ID
        /\ r.va_config = VA_INVALID_ID
        /\ contexts = {}
        /\ configs = {}
        /\ va_display = "terminated"

\* fini ran on a Ready session: it destroyed a live context, then a live
\* config, then terminated the display
C17_Witness ==
    /\ Finished
    /\ \E i \in Calls("vaDestroyContext") : log[i].live
    /\ \E i \in Calls("vaDestroyConfig") : log[i].live
    /\ Issued("vaTerminate")
    /\ calls > 0

\* the last call got as far as va_get_bo_from_view
ReachedImporter == Issued("vaQueryVideoProcFilterCaps")
\* the import type of the only gbm_bo_import of the last call is t
ImportedAs(t) ==
    /\ Count("gbm_bo_import") = 1
    /\ \A i \in Calls("gbm_bo_import") : log[i].b = t

\* C18: for a dma-buf with zero flags the legacy GBM_BO_IMPORT_FD import is
\* used exactly when the buffer has one plane, no modifier and offset 0, and
\* GBM_BO_IMPORT_FD_MODIFIER in every other case; a view without a buffer
\* is not imported and the call fails; any other buffer is imported as
\* GBM_BO_IMPORT_WL_BUFFER.
C18_ImportStrategy ==
    (Returned /\ ReachedImporter) =>
        /\ (v.buffer = "dmabuf" /\ v.flags = 0) =>
              IF v.n_planes = 1 /\ v.modifier = DRM_FORMAT_MOD_INVALID
                               /\ v.offset = 0
                THEN ImportedAs("GBM_BO_IMPORT_FD")
                ELSE ImportedAs("GBM_BO_IMPORT_FD_MODIFIER")
        /\ v.buffer = "none" => ~Issued("gbm_bo_import") /\ retval = FALSE
        /\ v.buffer = "wl" => ImportedAs("GBM_BO_IMPORT_WL_BUFFER")

\* a one-plane dma-buf without modifier but with a plane offset went through
\* the modifier import
C18_Witness ==
    /\ Returned
    /\ v.buffer = "dmabuf"
    /\ v.flags = 0
    /\ v.n_planes = 1
    /\ v.modifier = DRM_FORMAT_MOD_INVALID
    /\ v.offset = SomeOffset
    /\ ImportedAs("GBM_BO_IMPORT_FD_MODIFIER")
    /\ loc.bo.id # 0

\* C19: every vaDestroyContext / vaDestroyConfig the module issues names a
\* handle that an earlier vaCreateContext / vaCreateConfig returned and that
\* has not been destroyed since, and at most one context and one config of
\* the session are alive at any time.
C19_DestroyOnlyLiveHandles ==
    /\ \A i \in Calls("vaDestroyContext") \cup Calls("vaDestroyConfig") :
          log[i].live
    /\ Cardinality(contexts) <= 1
    /\ Cardinality(configs) <= 1

\* the positions of a tonemap call from which the context handle is passed
\* to vaQueryVideoProcFilterCaps, vaCreateBuffer or a picture call
ContextUsers == {"query_caps", "filter_buffer", "pipeline_buffer1", "pass1",
                 "pipeline_buffer2", "pass2"}

\* C20: the tonemap call that follows one that failed in vaCreateConfig or
\* vaCreateContext (render_target_format already set) attempts the context
\* creation again when its view has HDR metadata, and the context handle is
\* a live context whenever it is passed to vaQueryVideoProcFilterCaps,
\* vaCreateBuffer or a begin/render/end-picture call.
C20_FailedTransitionRetried ==
    /\ (Returned /\ v.hdr_metadata /\ pre.after_failed_transition) =>
          /\ pre.r.render_target_format = rt_format
          /\ Issued("vaCreateConfig")
          /\ retval = TRUE => r.va_context \in contexts
    /\ pc \in ContextUsers => r.va_context \in contexts
    /\ \A i \in Calls("vaQueryVideoProcFilterCaps") : log[i].live

\* the call after a failed transition created the context and succeeded
C20_Witness ==
    /\ Returned
    /\ v.hdr_metadata
    /\ pre.after_failed_transition
    /\ pre.r.render_target_format = rt_format
    /\ Count("vaCreateContext") = 1
    /\ retval = TRUE

====
